---- MODULE Spec2Model ----
(***************************************************************************)
(* Full-text render driver of web/full_text_render.js (diffeo/pdf.js).     *)
(*                                                                         *)
(* The module forces every page of the viewer to render its text layer,    *)
(* one page at a time, counts the textlayerrendered events, and dispatches *)
(* one documentrendered event when every page has been counted.            *)
(*                                                                         *)
(* src/web/full_text_render.js holds two revisions of the file, one after  *)
(* the other: lines 1-149 (entry point run) and lines 150-346 (entry point *)
(* init/onDocumentLoaded, with the page ceiling and the word-length        *)
(* heuristic).  forEachView, getAllRenderPromises, renderNextPage,         *)
(* updateInitialLoadingProgress, startTimer, stopTimer, onResumeRender and *)
(* the body of onRendered up to the terminal branch are the same text in   *)
(* both; src/unnamed/part_000 is the earliest revision, before the stall   *)
(* watchdog (no renderingView, no timer).  The variable `revision` says    *)
(* which of the three is running: "part_000", "run" or "init".             *)
(*                                                                         *)
(* Page views are numbered 1..n here (pages[n-1] in the code); the keys of *)
(* `rendered` are the code's 0-based page indices.                         *)
(***************************************************************************)
EXTENDS Integers, Sequences, FiniteSets, TLC

\* ------------------------------------------------------------------ bounds
\* Largest document whose rendering is explored.
MaxPages == 3

\* The inputs of the heuristic when it is checked on its own: documents of
\* up to MaxHeurPages pages, each text any string of "a" and " " of up to
\* MaxTextLen characters or one word of up to MaxWordLen characters.
MaxHeurPages == 2
MaxTextLen == 3
MaxWordLen == 12

\* The documents opened one after the other, where more than one is.
MaxLoads == 2

\* The views the renderer draws and resets of its own accord are the first
\* MaxVisible ones (the viewport is on the first two pages); the others are
\* drawn when this module requests it.
MaxVisible == 2

\* --------------------------------------------------------------- constants
MAX_CACHE_SIZE == 100
MAX_AVG_WORD_LENGTH == 10

Undefined == "undefined"

\* renderingView when it references a view of a closed document.
StaleView == -1

VARIABLES
  revision,        \* which revision of the file runs: "part_000", "run", "init"
  keepTextLayers,  \* PDFViewerApplication.pdfViewer.keepTextLayers
  dom,             \* the progress dialog in the document: "ok", "nodialog", "nometer"
  pages,           \* PDFViewerApplication.pdfViewer._pages
  renderingView,   \* module variable renderingView: 0 is null, else a page view
                   \* (StaleView: a view of a document that has been closed)
  timer,           \* module variable timer: 0 is null, else the interval's handle
  liveTimers,      \* the interval timers that exist (set, not yet cleared)
  documentLoaded,  \* the documentload event has been dispatched
  cycles,          \* one closure per start of onDocumentLoaded that got past its gate
  meter,           \* the dialog: [value, visible]
  signals,         \* the documentrendered events dispatched: their detail
  alerts,          \* the alert() notices shown
  last,            \* what the latest step did
  probe            \* a call of calculateAverageWordLength, or of forEachView, on
                   \* its own: input and result

vars == <<revision, keepTextLayers, dom, pages, renderingView, timer, liveTimers,
          documentLoaded, cycles, meter, signals, alerts, last, probe>>

\* The part of the state the handlers read and write, threaded through them.
Store == [pages |-> pages, renderingView |-> renderingView, timer |-> timer,
          liveTimers |-> liveTimers, cycles |-> cycles, meter |-> meter,
          signals |-> signals, alerts |-> alerts,
          calls |-> <<>>, visited |-> <<>>, promises |-> <<>>, raised |-> FALSE,
          warned |-> <<>>, invoked |-> <<>>, failing |-> 0]
\* calls: the views renderView was called on in this step, in order; visited:
\* the views forEachView visited; warned: the indices console.warn reported
\* as already rendered; invoked: the cycles whose onRendered ran; failing:
\* how many of the step's first render requests raise (an input of the step).

\* ------------------------------------------------------------ page views
NewView == [renderingState |-> "INITIAL", paintTask |-> FALSE,
            textLayer |-> FALSE, childNodes |-> 0]

\* PDFRenderingQueue.renderView(view): what the request does to the view.
RenderViewOutcome(view) ==
  CASE view.renderingState = "INITIAL" ->
         [view EXCEPT !.renderingState = "RUNNING", !.paintTask = TRUE,
                      !.textLayer = TRUE, !.childNodes = 0]
    [] view.renderingState = "PAUSED" -> [view EXCEPT !.renderingState = "RUNNING"]
    [] OTHER -> view

\* view.renderingQueue.renderView(view) as this module calls it: the call is
\* recorded; the first s.failing requests of a step raise.
renderView(s, n) ==
  LET s1 == [s EXCEPT !.calls = Append(@, n)] IN
  IF Len(s.calls) < s.failing
  THEN [s1 EXCEPT !.raised = TRUE]
  ELSE [s1 EXCEPT !.pages[n] = RenderViewOutcome(s.pages[n])]

\* ------------------------------------------------------------ forEachView
\* The callback of getAllRenderPromises.
PromisesVisit(s, n) ==
  LET view == s.pages[n] IN
  [s |-> IF view.renderingState # "PAUSED" /\ view.paintTask
         THEN [s EXCEPT !.promises = Append(@, n)]
         ELSE s,
   result |-> Undefined, raised |-> FALSE]

\* The revisions with the stall watchdog (renderingView and timer).
HasWatchdog == revision # "part_000"

\* The callback of renderNextPage (renderingView = view from the second
\* revision on).
RenderVisit(s, n) ==
  LET view == s.pages[n] IN
  IF ~view.textLayer \/ view.childNodes < 1
  THEN LET s1 == renderView(IF HasWatchdog THEN [s EXCEPT !.renderingView = n] ELSE s, n) IN
       IF s1.raised
       THEN [s |-> [s1 EXCEPT !.raised = FALSE], result |-> Undefined, raised |-> TRUE]
       ELSE [s |-> s1, result |-> "true", raised |-> FALSE]
  ELSE [s |-> s, result |-> Undefined, raised |-> FALSE]

Visit(cb, s, n) ==
  LET s1 == [s EXCEPT !.visited = Append(@, n)] IN
  IF cb = "promises" THEN PromisesVisit(s1, n) ELSE RenderVisit(s1, n)

\* Faulty variant of forEachViewFrom: a visit that raises ends the scan.
RECURSIVE forEachViewAborts(_, _, _)
forEachViewAborts(cb, s, n) ==
  IF n < 1
  THEN [s |-> s, result |-> Undefined]
  ELSE LET r == Visit(cb, s, n) IN
       IF r.raised \/ r.result # Undefined
       THEN [s |-> r.s, result |-> r.result]
       ELSE forEachViewAborts(cb, r.s, n - 1)

RECURSIVE forEachViewFrom(_, _, _)
forEachViewFrom(cb, s, n) ==
  IF n < 1
  THEN [s |-> s, result |-> Undefined]
  ELSE LET r == Visit(cb, s, n) IN
       IF ~r.raised /\ r.result # Undefined
       THEN [s |-> r.s, result |-> r.result]
       ELSE forEachViewFrom(cb, r.s, n - 1)

forEachView(cb, s) == forEachViewFrom(cb, s, Len(s.pages))

getAllRenderPromises(s) == forEachView("promises", [s EXCEPT !.promises = <<>>]).s.promises

renderNextPage(s) == forEachView("render", s).s

\* ------------------------------------------------------------ progress UI
\* Faulty variant of Round: the progress is truncated.
RoundDown(done, count) == (100 * done) \div count

\* 2^n modulo m.
RECURSIVE PowMod(_, _)
PowMod(n, m) == IF n = 0 THEN 1 % m ELSE (2 * PowMod(n - 1, m)) % m

\* The least j >= from with done * 2^j >= count: done / count lies in
\* [2^-j, 2^(1-j)).
RECURSIVE BinadeFrom(_, _, _)
BinadeFrom(done, count, from) ==
  IF done * 2^from >= count THEN from ELSE BinadeFrom(done, count, from + 1)

\* Whether the double done / count * 100 is below the exact product, for
\* 0 < done < count.  The quotient is the 53-bit m * 2^-s nearest to
\* done / count; 100 times it is 25 * m * 2^(2 - s), of 57 or 58 bits,
\* rounded again to 53 bits (ties to even) by dropping its t lowest bits.  The
\* product less the exact value has the sign of
\* rho * count + 25 * (m * count - done * 2^s), rho the change of the second
\* rounding; only m modulo 64 and done * 2^s modulo count are needed.
ProductBelow(done, count) ==
  LET j == BinadeFrom(done, count, 1)
      s == 52 + j
      R == (done * PowMod(s, 64 * count)) % (64 * count)
      r == R % count
      up == 2 * r > count
      m64 == ((R \div count) + (IF up THEN 1 ELSE 0)) % 64
      merr == IF up THEN count - r ELSE 0 - r
      t == IF 25 * done * 2^j >= 32 * count THEN 5 ELSE 4
      M64 == (25 * m64) % 64
      low == M64 % 2^t
      half == 2^(t - 1)
      odd == (M64 \div 2^t) % 2 = 1
      rho == IF low > half \/ (low = half /\ odd) THEN 2^t - low ELSE 0 - low
  IN rho * count + 25 * merr < 0

\* Math.round(done / count * 100): the nearest integer, a half upwards, of
\* the double done / count * 100.  The double is within 2^-45 of the exact
\* product, so the two roundings differ only when the exact product is an
\* integer and a half and the double is below it (23 / 40 * 100 is
\* 57.49999999999999).
Round(done, count) ==
  LET exact == (200 * done + count) \div (2 * count)
      tie == (200 * done) % count = 0 /\ ((200 * done) \div count) % 2 = 1
  IN IF tie /\ done > 0 /\ done < count /\ ProductBelow(done, count)
     THEN exact - 1
     ELSE exact

\* updateInitialLoadingProgress(done / count * 100)
updateInitialLoadingProgress(s, done, count) ==
  IF dom = "nodialog"
  THEN s
  ELSE IF done * 100 >= 100 * count
       THEN [s EXCEPT !.meter.visible = FALSE]
       ELSE IF dom = "nometer"
            THEN [s EXCEPT !.raised = TRUE]
            ELSE [s EXCEPT !.meter = [value |-> Round(done, count), visible |-> TRUE]]

\* ------------------------------------------------------------------ timer
\* Faulty variant of stopTimer: the handle is forgotten, the interval not cleared.
stopTimerForgets(s) == [s EXCEPT !.timer = 0]

stopTimer(s) ==
  IF s.timer # 0
  THEN [s EXCEPT !.liveTimers = @ \ {s.timer}, !.timer = 0]
  ELSE s

\* setInterval: a handle no live timer has.
NewHandle(live) == CHOOSE h \in 1..(Cardinality(live) + 1) : h \notin live

startTimer(s) ==
  LET s1 == stopTimer(s)
      h == NewHandle(s1.liveTimers) IN
  [s1 EXCEPT !.timer = h, !.liveTimers = @ \cup {h}]

\* Faulty variant of onResumeRender: the request is re-issued whatever the state of
\* the forced view.
onResumeRenderAlways(s) ==
  IF s.renderingView \notin {0, StaleView} THEN renderView(s, s.renderingView) ELSE s

\* onResumeRender: the interval's callback.  A view of a closed document
\* has had its rendering cancelled and is not PAUSED.
onResumeRender(s) ==
  IF s.renderingView \notin {0, StaleView}
     /\ s.pages[s.renderingView].renderingState = "PAUSED"
  THEN renderView(s, s.renderingView)
  ELSE s

\* -------------------------------------------------- eligibility heuristic
\* text.split(/\s+/): the pieces between the maximal runs of whitespace.
RECURSIVE SplitFrom(_, _, _, _)
SplitFrom(text, i, cur, acc) ==
  IF i > Len(text)
  THEN Append(acc, cur)
  ELSE IF text[i] = " "
       THEN IF i > 1 /\ text[i - 1] = " "
            THEN SplitFrom(text, i + 1, cur, acc)
            ELSE SplitFrom(text, i + 1, <<>>, Append(acc, cur))
       ELSE SplitFrom(text, i + 1, Append(cur, text[i]), acc)

Split(text) == SplitFrom(text, 1, <<>>, <<>>)

\* The loop of calculateAverageWordLength from page p on.
RECURSIVE AvgLoop(_, _, _, _, _)
AvgLoop(containers, totalPages, p, len, words) ==
  IF p > totalPages
  THEN [len |-> len, words |-> words]
  ELSE IF ~containers[p].found
       THEN AvgLoop(containers, totalPages, p + 1, len, words)
       ELSE LET text == containers[p].textContent
                pwords == Len(Split(text)) IN
            AvgLoop(containers, totalPages, p + 1, len + Len(text) - pwords,
                    words + pwords)

\* calculateAverageWordLength: the quotient len / words, kept as the pair; it
\* is NaN when words is 0 (then len is 0 too).
calculateAverageWordLength(containers, totalPages) ==
  AvgLoop(containers, totalPages, 1, 0, 0)

\* avg > k and avg < k on the quotient; every comparison with NaN is false.
Greater(avg, k) == avg.words # 0 /\ avg.len > k * avg.words
Less(avg, k) == avg.words # 0 /\ avg.len < k * avg.words

\* Faulty variant of enableHighlightsOf: the bounds are taken as inclusive.
enableHighlightsInclusive(wordLen) ==
  /\ wordLen.words # 0
  /\ wordLen.len >= wordLen.words
  /\ wordLen.len <= MAX_AVG_WORD_LENGTH * wordLen.words

\* wordLen > 1 && wordLen < MAX_AVG_WORD_LENGTH
enableHighlightsOf(wordLen) == Greater(wordLen, 1) /\ Less(wordLen, MAX_AVG_WORD_LENGTH)

\* ------------------------------------------------------------- onRendered
\* const rendered = {} and the listener, as onDocumentLoaded creates them.
\* delivered, done, full, offs and wordLen are records of what the handler
\* was given, logged and did (full: done has been equal to count; relapsed:
\* the handler has forced a page after that).
NewCycle == [rendered |-> <<>>, subscribed |-> TRUE, delivered |-> {},
             done |-> 0, full |-> FALSE, relapsed |-> FALSE, offs |-> 0, emitted |-> 0,
             wordLen |-> [len |-> 0, words |-> 0]]

\* rendered[num] === true
Warns(rendered, num) == num \in DOMAIN rendered /\ rendered[num] = TRUE

\* Faulty variant of Mark: the handler appends to a list instead of setting a key.
MarkAppends(rendered, num) ==
  [k \in DOMAIN rendered \cup {Cardinality(DOMAIN rendered)} |-> TRUE]

\* rendered[num] = true unless it is already
Mark(rendered, num) ==
  IF Warns(rendered, num)
  THEN rendered
  ELSE [k \in DOMAIN rendered \cup {num} |-> IF k = num THEN TRUE ELSE rendered[k]]

\* The terminal branch of onRendered in run: unsubscribe, then dispatch
\* documentrendered with the detail {}.
FinishRun(s, c) ==
  [s EXCEPT !.cycles[c].subscribed = FALSE,
            !.cycles[c].offs = @ + 1,
            !.cycles[c].emitted = @ + 1,
            !.signals = Append(@, [hasFlag |-> FALSE, enableHighlights |-> FALSE])]

\* The terminal branch of onRendered in onDocumentLoaded: the heuristic, the
\* notice, unsubscribe, then documentrendered with the detail
\* {enableHighlights}.
FinishInit(s, c, count, containers) ==
  LET wordLen == calculateAverageWordLength(containers, count)
      enableHighlights == enableHighlightsOf(wordLen)
      s1 == IF ~enableHighlights THEN [s EXCEPT !.alerts = Append(@, "unsupported")] ELSE s
  IN [s1 EXCEPT !.cycles[c].subscribed = FALSE,
                !.cycles[c].offs = @ + 1,
                !.cycles[c].emitted = @ + 1,
                !.cycles[c].wordLen = wordLen,
                !.signals = Append(@, [hasFlag |-> TRUE, enableHighlights |-> enableHighlights])]

\* Faulty variant of Finish: the listener is not removed.
FinishKeepsListener(s, c, count, containers) ==
  LET f == IF revision = "init" THEN FinishInit(s, c, count, containers) ELSE FinishRun(s, c)
  IN [f EXCEPT !.cycles[c].subscribed = TRUE, !.cycles[c].offs = 0]

\* Faulty variant of Finish: an ineligible document ends the handler without the
\* terminal transition.
FinishAbortsIneligible(s, c, count, containers) ==
  LET f == IF revision = "init" THEN FinishInit(s, c, count, containers) ELSE FinishRun(s, c)
  IN IF revision = "init" /\ ~f.signals[Len(f.signals)].enableHighlights
     THEN [s EXCEPT !.alerts = Append(@, "unsupported")]
     ELSE f

Finish(s, c, count, containers) ==
  IF revision = "init" THEN FinishInit(s, c, count, containers) ELSE FinishRun(s, c)

\* Faulty variant of Continue: the renders in flight are not asked about.
ContinueIgnoresInFlight(s, c, done, count, containers) ==
  IF done < count
  THEN renderNextPage(IF HasWatchdog THEN startTimer(s) ELSE s)
  ELSE Finish(s, c, count, containers)

\* Faulty variant of Continue: the timer is armed before the renders in flight
\* are asked about.
ContinueArmsFirst(s, c, done, count, containers) ==
  LET s1 == IF HasWatchdog /\ done < count THEN startTimer(s) ELSE s IN
  IF Len(getAllRenderPromises(s1)) > 0
  THEN s1
  ELSE IF done < count
       THEN renderNextPage(s1)
       ELSE Finish(s1, c, count, containers)

\* Faulty variant of Continue: an index delivered again sends the handler to
\* the branch that renders more.
ContinueOnDuplicate(s, c, done, count, containers) ==
  IF Len(getAllRenderPromises(s)) > 0
  THEN s
  ELSE IF done < count \/ s.warned # <<>>
       THEN renderNextPage([(IF HasWatchdog THEN startTimer(s) ELSE s)
                              EXCEPT !.cycles[c].relapsed = s.cycles[c].full])
       ELSE Finish(s, c, count, containers)

\* The branches of onRendered after the progress update.
Continue(s, c, done, count, containers) ==
  IF Len(getAllRenderPromises(s)) > 0
  THEN s
  ELSE IF done < count
       THEN renderNextPage([(IF HasWatchdog THEN startTimer(s) ELSE s)
                              EXCEPT !.cycles[c].relapsed = @ \/ s.cycles[c].full])
       ELSE Finish(s, c, count, containers)

\* onRendered(ev) of cycle c, ev.pageNumber = pageNumber (stopTimer from the
\* second revision on).
onRendered(s, c, pageNumber, containers) ==
  LET s1 == IF HasWatchdog THEN stopTimer(s) ELSE s
      num == pageNumber - 1
      rendered == Mark(s1.cycles[c].rendered, num)
      count == Len(s1.pages)
      done == Cardinality(DOMAIN rendered)
      s2 == [s1 EXCEPT !.cycles[c].rendered = rendered,
                       !.cycles[c].delivered = @ \cup {num},
                       !.cycles[c].done = done,
                       !.cycles[c].full = @ \/ done = count,
                       !.invoked = Append(@, c),
                       !.warned = IF Warns(s1.cycles[c].rendered, num)
                                  THEN Append(@, num) ELSE @]
      s3 == updateInitialLoadingProgress(s2, done, count)
  IN IF s3.raised THEN s3 ELSE Continue(s3, c, done, count, containers)

\* eventBus.dispatch('textlayerrendered', {pageNumber}): the listeners that
\* were subscribed when the dispatch began, in subscription order; an
\* exception of a listener ends the dispatch.
RECURSIVE dispatchFrom(_, _, _, _, _)
dispatchFrom(s, listening, c, pageNumber, containers) ==
  IF c > Len(listening) \/ s.raised
  THEN s
  ELSE dispatchFrom(IF listening[c] THEN onRendered(s, c, pageNumber, containers) ELSE s,
                    listening, c + 1, pageNumber, containers)

dispatchTextLayerRendered(s, pageNumber, containers) ==
  dispatchFrom(s, [c \in 1..Len(s.cycles) |-> s.cycles[c].subscribed], 1,
               pageNumber, containers)

\* ------------------------------------------------- run, onDocumentLoaded
run(s) ==
  IF ~keepTextLayers
  THEN s
  ELSE LET s1 == updateInitialLoadingProgress(s, 0, 1) IN
       IF s1.raised THEN s1 ELSE [s1 EXCEPT !.cycles = Append(@, NewCycle)]

onDocumentLoaded(s) ==
  IF ~keepTextLayers
  THEN s
  ELSE IF Len(s.pages) > MAX_CACHE_SIZE
       THEN [s EXCEPT !.alerts = Append(@, "too large")]
       ELSE LET s1 == updateInitialLoadingProgress(s, 0, 1) IN
            IF s1.raised THEN s1 ELSE [s1 EXCEPT !.cycles = Append(@, NewCycle)]

\* ------------------------------------------------------------ the inputs
PageCounts == (1..MaxPages) \cup {MAX_CACHE_SIZE, MAX_CACHE_SIZE + 1}
Revisions == {"part_000", "run", "init"}
Doms == {"ok", "nodialog", "nometer"}

\* The texts of a page container: the words are runs of "a".
RECURSIVE TextsUpTo(_)
TextsUpTo(n) ==
  IF n = 0 THEN {<<>>}
  ELSE LET shorter == TextsUpTo(n - 1) IN
       shorter \cup {Append(t, ch) : t \in {u \in shorter : Len(u) = n - 1}, ch \in {"a", " "}}

Container(text) == [found |-> TRUE, textContent |-> text]
NoContainer == [found |-> FALSE, textContent |-> <<>>]

\* What the event handlers can find in the document for one page: no
\* container, an average of exactly 1 ("aa"), an eligible text ("aaa").
EventContainers == {NoContainer, Container(<<"a", "a">>), Container(<<"a", "a", "a">>)}

\* The documents the event handlers read: every page holds the same text
\* (the heuristic is checked on mixed documents on its own).
DocumentContainers(n) == {[p \in 1..n |-> c] : c \in EventContainers}

\* ---------------------------------------------------------------- actions
Commit(result, op) ==
  \E s \in {result} :
    /\ pages' = s.pages
    /\ renderingView' = s.renderingView
    /\ timer' = s.timer
    /\ liveTimers' = s.liveTimers
    /\ cycles' = s.cycles
    /\ meter' = s.meter
    /\ signals' = s.signals
    /\ alerts' = s.alerts
    /\ last' = [op |-> op, calls |-> s.calls, raised |-> s.raised,
                warned |-> s.warned, invoked |-> s.invoked,
                signalled |-> Len(s.signals) - Len(signals)]
    /\ UNCHANGED <<revision, keepTextLayers, dom, probe>>

\* The views renderNextPage takes as not rendered.
Unrendered(ps) == {p \in 1..Len(ps) : ~ps[p].textLayer \/ ps[p].childNodes < 1}

\* How many render requests of a step may raise: up to all a scan can make.
Failings(ps) == Cardinality(Unrendered(ps))

Min(a, b) == IF a < b THEN a ELSE b

WithFaults(s, failing) == [s EXCEPT !.failing = failing]

NoProbe == [computed |-> FALSE, containers |-> <<>>,
            wordLen |-> [len |-> 0, words |-> 0], enableHighlights |-> FALSE]

Init ==
  /\ probe = NoProbe
  /\ revision \in Revisions
  /\ keepTextLayers \in BOOLEAN
  /\ dom \in Doms
  /\ \E n \in PageCounts : pages = [p \in 1..n |-> NewView]
  /\ renderingView = 0
  /\ timer = 0
  /\ liveTimers = {}
  /\ documentLoaded = FALSE
  /\ cycles = <<>>
  /\ meter = [value |-> 0, visible |-> FALSE]
  /\ signals = <<>>
  /\ alerts = <<>>
  /\ last = [op |-> "init", calls |-> <<>>, raised |-> FALSE,
             warned |-> <<>>, invoked |-> <<>>, signalled |-> 0]

\* The application starts the mechanism: it calls run(), or, with init(app)
\* done, the documentload event reaches onDocumentLoaded.
DocumentLoad ==
  /\ ~documentLoaded
  /\ documentLoaded' = TRUE
  /\ Commit(IF revision = "init" THEN onDocumentLoaded(Store) ELSE run(Store),
            "documentload")

\* The renderer is explored on the documents of at most MaxPages pages.
Explored == Len(pages) <= MaxPages

Env(newPages) ==
  /\ pages' = newPages
  /\ last' = [op |-> "renderer", calls |-> <<>>, raised |-> FALSE,
              warned |-> <<>>, invoked |-> <<>>, signalled |-> 0]
  /\ UNCHANGED <<revision, keepTextLayers, dom, renderingView, timer, liveTimers,
                 documentLoaded, cycles, meter, signals, alerts, probe>>

Visible(p) == p <= MaxVisible

\* The renderer starts a page out of its own scheduling.
RendererStart(p) ==
  /\ Explored
  /\ p \in 1..Len(pages)
  /\ Visible(p)
  /\ pages[p].renderingState = "INITIAL"
  /\ Env([pages EXCEPT ![p] = RenderViewOutcome(@)])

\* The renderer pauses a running page (it is not its highest priority).
RendererPause(p) ==
  /\ Explored
  /\ p \in 1..Len(pages)
  /\ pages[p].renderingState = "RUNNING"
  /\ Env([pages EXCEPT ![p].renderingState = "PAUSED"])

\* The renderer resumes a page it paused.
RendererResume(p) ==
  /\ Explored
  /\ p \in 1..Len(pages)
  /\ Visible(p)
  /\ pages[p].renderingState = "PAUSED"
  /\ Env([pages EXCEPT ![p].renderingState = "RUNNING"])

\* The renderer resets a view (PDFPageView.reset, on a zoom or when the view
\* leaves the cache): the paint task is cancelled; the text layer stays only
\* when text layers are kept.
Reset(p) ==
  /\ Explored
  /\ p \in 1..Len(pages)
  /\ Visible(p)
  /\ pages[p].renderingState # "INITIAL"
  /\ Env([pages EXCEPT ![p].renderingState = "INITIAL", ![p].paintTask = FALSE,
                       ![p].textLayer = @ /\ keepTextLayers,
                       ![p].childNodes = IF keepTextLayers THEN @ ELSE 0])

\* The paint task of a running page completes.
PaintDone(p) ==
  /\ Explored
  /\ p \in 1..Len(pages)
  /\ pages[p].renderingState = "RUNNING"
  /\ Env([pages EXCEPT ![p].renderingState = "FINISHED", ![p].paintTask = FALSE])

\* Whether the dispatch reaches the terminal branch (it then reads the page
\* containers of the document).
ReadsContainers(s, pageNumber) ==
  Len(dispatchTextLayerRendered(s, pageNumber, [p \in 1..Len(s.pages) |-> NoContainer]).signals)
    > Len(s.signals)

TextLayerRenderedEvent(s0, pageNumber, maxFailing) ==
  \E failing \in 0..Min(maxFailing, Failings(s0.pages)) : LET s == WithFaults(s0, failing) IN
  \E containers \in IF ReadsContainers(s, pageNumber)
                    THEN DocumentContainers(Len(s.pages))
                    ELSE {[p \in 1..Len(s.pages) |-> NoContainer]} :
    /\ Commit(dispatchTextLayerRendered(s, pageNumber, containers), "textlayerrendered")
    /\ UNCHANGED documentLoaded

\* The text layer of a painted page is filled and textlayerrendered is
\* dispatched for it (TextLayerBuilder._finishRendering).
TextLayerRenderedWith(p, maxFailing) ==
  /\ Explored
  /\ p \in 1..Len(pages)
  /\ pages[p].renderingState = "FINISHED"
  /\ pages[p].textLayer
  /\ pages[p].childNodes = 0
  /\ TextLayerRenderedEvent([Store EXCEPT !.pages[p].childNodes = 1], p, maxFailing)

TextLayerRendered(p) == TextLayerRenderedWith(p, Len(pages))

\* textlayerrendered is dispatched again for a page whose text layer is filled.
DuplicateEvent(p) ==
  /\ Explored
  /\ p \in 1..Len(pages)
  /\ pages[p].textLayer
  /\ pages[p].childNodes >= 1
  /\ TextLayerRenderedEvent(Store, p, Len(pages))

\* An interval timer fires.
TickWith(maxFailing) ==
  /\ liveTimers # {}
  /\ \E failing \in 0..maxFailing : Commit(onResumeRender(WithFaults(Store, failing)), "tick")
  /\ UNCHANGED documentLoaded

Tick == TickWith(1)

Next ==
  \/ DocumentLoad
  \/ Tick
  \/ \E p \in 1..Len(pages) : RendererStart(p)
  \/ \E p \in 1..Len(pages) : RendererPause(p)
  \/ \E p \in 1..Len(pages) : RendererResume(p)
  \/ \E p \in 1..Len(pages) : PaintDone(p)
  \/ \E p \in 1..Len(pages) : Reset(p)
  \/ \E p \in 1..Len(pages) : TextLayerRendered(p)
  \/ \E p \in 1..Len(pages) : DuplicateEvent(p)

Spec == Init /\ [][Next]_vars

\* ------------------------------------------- the heuristic on its own
Word(k) == [i \in 1..k |-> "a"]

HeurTexts == TextsUpTo(MaxTextLen) \cup {Word(k) : k \in 1..MaxWordLen}
HeurContainers == {NoContainer} \cup {Container(text) : text \in HeurTexts}

InitHeur ==
  /\ revision = "init"
  /\ keepTextLayers = TRUE
  /\ dom = "ok"
  /\ \E n \in 1..MaxHeurPages : \E containers \in [1..n -> HeurContainers] :
       /\ pages = [p \in 1..n |-> NewView]
       /\ probe = [NoProbe EXCEPT !.containers = containers]
  /\ renderingView = 0
  /\ timer = 0
  /\ liveTimers = {}
  /\ documentLoaded = FALSE
  /\ cycles = <<>>
  /\ meter = [value |-> 0, visible |-> FALSE]
  /\ signals = <<>>
  /\ alerts = <<>>
  /\ last = [op |-> "init", calls |-> <<>>, raised |-> FALSE,
             warned |-> <<>>, invoked |-> <<>>, signalled |-> 0]

\* const wordLen = calculateAverageWordLength(count);
\* const enableHighlights = wordLen > 1 && wordLen < MAX_AVG_WORD_LENGTH;
Classify ==
  /\ ~probe.computed
  /\ LET wordLen == calculateAverageWordLength(probe.containers, Len(probe.containers)) IN
     probe' = [probe EXCEPT !.computed = TRUE, !.wordLen = wordLen,
                            !.enableHighlights = enableHighlightsOf(wordLen)]
  /\ UNCHANGED <<revision, keepTextLayers, dom, pages, renderingView, timer,
                 liveTimers, documentLoaded, cycles, meter, signals, alerts, last>>

NextHeur == Classify

SpecHeur == InitHeur /\ [][NextHeur]_vars

\* ---------------------------------------------- forEachView on its own
\* The views a scan can meet: not drawn, being painted, text layer filled.
ScanViews ==
  {NewView,
   [renderingState |-> "RUNNING", paintTask |-> TRUE, textLayer |-> TRUE, childNodes |-> 0],
   [renderingState |-> "FINISHED", paintTask |-> FALSE, textLayer |-> TRUE, childNodes |-> 1]}

InitScan ==
  /\ revision = "run"
  /\ keepTextLayers = TRUE
  /\ dom = "ok"
  /\ \E n \in 1..MaxPages : pages \in [1..n -> ScanViews]
  /\ \E cb \in {"promises", "render"} : \E failing \in 0..Len(pages) :
       probe = [computed |-> FALSE, cb |-> cb, failing |-> failing,
                visited |-> <<>>, calls |-> <<>>, result |-> Undefined]
  /\ renderingView = 0
  /\ timer = 0
  /\ liveTimers = {}
  /\ documentLoaded = FALSE
  /\ cycles = <<>>
  /\ meter = [value |-> 0, visible |-> FALSE]
  /\ signals = <<>>
  /\ alerts = <<>>
  /\ last = [op |-> "init", calls |-> <<>>, raised |-> FALSE,
             warned |-> <<>>, invoked |-> <<>>, signalled |-> 0]

\* forEachView(callback) with the callback of getAllRenderPromises or of
\* renderNextPage.
Scan ==
  /\ ~probe.computed
  /\ \E r \in {forEachView(probe.cb, WithFaults(Store, probe.failing))} :
       /\ probe' = [probe EXCEPT !.computed = TRUE, !.visited = r.s.visited,
                                 !.calls = r.s.calls, !.result = r.result]
       /\ pages' = r.s.pages
       /\ renderingView' = r.s.renderingView
  /\ UNCHANGED <<revision, keepTextLayers, dom, timer, liveTimers,
                 documentLoaded, cycles, meter, signals, alerts, last>>

NextScan == Scan

SpecScan == InitScan /\ [][NextScan]_vars

\* ----------------------------------------------- a well-behaved renderer
\* The renderer draws every view it is asked to draw and each visible view
\* once, never resets a view, raises on no request, dispatches
\* textlayerrendered once per view, and the timer keeps firing.
InitLive ==
  /\ Init
  /\ keepTextLayers = TRUE
  /\ dom = "ok"
  /\ Len(pages) <= MaxPages

NextLive ==
  \/ DocumentLoad
  \/ TickWith(0)
  \/ \E p \in 1..Len(pages) : RendererStart(p)
  \/ \E p \in 1..Len(pages) : RendererPause(p)
  \/ \E p \in 1..Len(pages) : RendererResume(p)
  \/ \E p \in 1..Len(pages) : PaintDone(p)
  \/ \E p \in 1..Len(pages) : TextLayerRenderedWith(p, 0)

Fairness ==
  /\ WF_vars(DocumentLoad)
  /\ WF_vars(TickWith(0))
  /\ \A p \in 1..MaxPages :
       /\ WF_vars(RendererStart(p))
       /\ SF_vars(RendererResume(p))
       /\ SF_vars(PaintDone(p))
       /\ WF_vars(TextLayerRenderedWith(p, 0))

SpecLive == InitLive /\ [][NextLive]_vars /\ Fairness

\* ------------------------------------------- another document is opened
\* The viewer closes the document and opens one of n pages: the page views
\* are replaced, and documentload is dispatched again.
Reload(n) ==
  /\ revision = "init"
  /\ documentLoaded
  /\ Explored
  /\ Len(cycles) < MaxLoads
  /\ Commit(onDocumentLoaded([Store EXCEPT
                !.pages = [p \in 1..n |-> NewView],
                !.renderingView = IF @ = 0 THEN 0 ELSE StaleView]),
            "documentload")
  /\ UNCHANGED documentLoaded

InitReload ==
  /\ Init
  /\ revision = "init"
  /\ keepTextLayers = TRUE
  /\ dom = "ok"
  /\ Len(pages) <= MaxPages

NextReload ==
  \/ Next
  \/ \E n \in 1..MaxPages : Reload(n)

SpecReload == InitReload /\ [][NextReload]_vars

\* ------------------------------------------------ the dialog is changed
\* The host page adds or removes the loading dialog or its <progress>
\* element while the document is open.
DomChange ==
  /\ Explored
  /\ \E d \in Doms \ {dom} : dom' = d
  /\ last' = [op |-> "dom", calls |-> <<>>, raised |-> FALSE,
              warned |-> <<>>, invoked |-> <<>>, signalled |-> 0]
  /\ UNCHANGED <<revision, keepTextLayers, pages, renderingView, timer, liveTimers,
                 documentLoaded, cycles, meter, signals, alerts, probe>>

InitDom ==
  /\ Init
  /\ keepTextLayers = TRUE
  /\ Len(pages) <= MaxPages

NextDom ==
  \/ Next
  \/ DomChange

SpecDom == InitDom /\ [][NextDom]_vars

\* ------------------------------------------------- the timer keeps firing
\* Any renderer, with the interval timer firing as long as it is set.
InitWatch ==
  /\ Init
  /\ revision = "init"
  /\ keepTextLayers = TRUE
  /\ dom = "ok"
  /\ Len(pages) <= MaxPages

SpecWatch == InitWatch /\ [][Next]_vars /\ WF_vars(Tick)

\* ================================================================ claims
\* A page whose rendering state is not PAUSED has an in-flight paint handle.
InFlight(ps) == \E p \in 1..Len(ps) : ps[p].renderingState # "PAUSED" /\ ps[p].paintTask

\* The latest step was a textlayerrendered event that cycle c's handler got.
Handled(c) == last.op = "textlayerrendered" /\ \E i \in 1..Len(last.invoked) : last.invoked[i] = c

\* C1: after every textlayerrendered event the done-count the handler computes
\* is the number of distinct page indices delivered to it so far, so a
\* re-delivered index leaves it as it was.
C1_DoneCountsDistinct ==
  \A c \in 1..Len(cycles) : cycles[c].done = Cardinality(cycles[c].delivered)

\* C1 witness: the handler has just been given an index again, after two
\* distinct ones.
C1_Witness ==
  /\ Len(cycles) = 1
  /\ Handled(1)
  /\ last.warned # <<>>
  /\ cycles[1].done = 2

\* C2 (state part): a cycle has unsubscribed at most once, is subscribed until
\* then, and has dispatched documentrendered as often as it has unsubscribed.
C2_OnceState ==
  \A c \in 1..Len(cycles) :
    /\ cycles[c].offs <= 1
    /\ cycles[c].emitted = cycles[c].offs
    /\ cycles[c].subscribed <=> cycles[c].offs = 0

\* C2 (step part): the signal and the unsubscription happen in one step, and
\* a textlayerrendered event after it leaves the cycles, the signals, the
\* forced view and the timer as they are and requests no render.
C2_OnceStep ==
  /\ \A c \in 1..Len(cycles) :
       c <= Len(cycles') =>
         (cycles'[c].emitted # cycles[c].emitted <=> cycles'[c].offs # cycles[c].offs)
  /\ ((\A c \in 1..Len(cycles) : ~cycles[c].subscribed) /\ last'.op = "textlayerrendered")
       => /\ UNCHANGED <<cycles, signals, renderingView, timer, liveTimers, meter, alerts>>
          /\ last'.calls = <<>>
          /\ last'.signalled = 0

\* C2: within a cycle documentrendered is dispatched once and the handler is
\* unsubscribed once, in the same step; later events do nothing.
C2_SignalOnce == []C2_OnceState /\ [][C2_OnceStep]_vars

\* C2 witness: an event arrived after the cycle had finished.
C2_Witness ==
  /\ Len(cycles) = 1
  /\ ~cycles[1].subscribed
  /\ cycles[1].emitted = 1
  /\ last.op = "textlayerrendered"
  /\ last.signalled = 0

\* C5: documentrendered is dispatched only in a textlayerrendered step of a
\* cycle that has been given every page index, with no render of a page that
\* is not PAUSED in flight.
C5_EmitStep ==
  Len(signals') > Len(signals) =>
    /\ last'.op = "textlayerrendered"
    /\ ~InFlight(pages')
    /\ \A c \in 1..Len(cycles') :
         (c > Len(cycles) \/ cycles'[c].emitted # cycles[c].emitted)
           => Cardinality(cycles'[c].delivered) = Len(pages')

C5_EmitOnlyWhenDone == [][C5_EmitStep]_vars

\* C5 witness: a cycle of a three-page document has just dispatched the signal.
C5_Witness ==
  /\ last.op = "textlayerrendered"
  /\ last.signalled = 1
  /\ Len(pages) = 3

\* C6: a tick re-issues the render request for the forced view, and only for
\* it, when that view is PAUSED; otherwise it requests nothing and changes
\* nothing.
C6_TickStep ==
  last'.op = "tick" =>
    IF renderingView # 0 /\ pages[renderingView].renderingState = "PAUSED"
    THEN last'.calls = <<renderingView>>
    ELSE /\ last'.calls = <<>>
         /\ UNCHANGED <<pages, renderingView, timer, liveTimers, cycles, meter,
                        signals, alerts>>

C6_WatchdogTick == [][C6_TickStep]_vars

\* C6 witness: a tick has just re-issued the request for the forced view.
C6_Witness ==
  /\ last.op = "tick"
  /\ renderingView # 0
  /\ last.calls = <<renderingView>>

\* C4 (as claimed): one scan of renderNextPage calls renderView on at most
\* one view, also when a visit raises.
C4_OneRequestPerScan ==
  (last.op = "textlayerrendered" /\ Len(cycles) = 1)
    => Cardinality({last.calls[i] : i \in 1..Len(last.calls)}) <= 1

\* C7 (as claimed): a documentload subscribes exactly when text layers are
\* kept and the page count is at most MAX_CACHE_SIZE; a load that does not
\* pass forces nothing, arms no timer and dispatches nothing.
C7_StartGate ==
  (revision = "init" /\ documentLoaded) =>
    /\ Len(cycles) = 1 <=> (keepTextLayers /\ Len(pages) <= MAX_CACHE_SIZE)
    /\ ~(keepTextLayers /\ Len(pages) <= MAX_CACHE_SIZE)
         => (renderingView = 0 /\ timer = 0 /\ liveTimers = {} /\ signals = <<>>)

\* C8: in the revision with the heuristic, an event that leaves every page
\* counted and no render in flight ends the cycle whatever the heuristic
\* says: the handler is unsubscribed and one documentrendered has been
\* dispatched; its flag is false, and the notice is shown, exactly when the
\* logged average is not strictly between 1 and MAX_AVG_WORD_LENGTH.
C8_RejectionStillFinishes ==
  (revision = "init" /\ Len(cycles) = 1 /\ Handled(1)
     /\ cycles[1].done >= Len(pages) /\ ~InFlight(pages))
    => /\ ~cycles[1].subscribed
       /\ cycles[1].emitted = 1
       /\ Len(signals) = 1
       /\ signals[1].hasFlag
       /\ signals[1].enableHighlights
            <=> /\ cycles[1].wordLen.words > 0
                /\ cycles[1].wordLen.len > cycles[1].wordLen.words
                /\ cycles[1].wordLen.len < MAX_AVG_WORD_LENGTH * cycles[1].wordLen.words
       /\ signals[1].enableHighlights <=> alerts = <<>>

\* C8 witness: the cycle of an ineligible document has dispatched its signal.
C8_Witness ==
  /\ revision = "init"
  /\ Len(signals) = 1
  /\ signals[1].hasFlag
  /\ ~signals[1].enableHighlights
  /\ alerts = <<"unsupported">>
  /\ ~cycles[1].subscribed

\* v is Math.round(done / count * 100): v <= x + 1/2 < v + 1.
IsRounded(v, done, count) ==
  /\ 2 * v * count <= 200 * done + count
  /\ 200 * done + count < 2 * (v + 1) * count

\* C10 (as claimed): after each handled event the meter shows
\* round(done / count * 100).
C10_MeterAlwaysSet ==
  (dom = "ok" /\ Len(cycles) = 1 /\ Handled(1))
    => IsRounded(meter.value, cycles[1].done, Len(pages))

\* C10 (state part, amended): after a handled event with done < count the
\* dialog is visible and the meter shows round(done / count * 100); with
\* done = count the dialog is hidden.
C10_MeterState ==
  (dom = "ok" /\ Len(cycles) = 1 /\ Handled(1))
    => IF cycles[1].done < Len(pages)
       THEN meter.visible /\ IsRounded(meter.value, cycles[1].done, Len(pages))
       ELSE ~meter.visible

\* C10 (step part, amended): an event handled with done = count leaves the
\* meter's value as it was.
C10_MeterStep ==
  (dom = "ok" /\ Len(cycles') = 1 /\ last'.op = "textlayerrendered"
     /\ last'.invoked # <<>> /\ cycles'[1].done >= Len(pages'))
    => meter'.value = meter.value

\* C10 (amended): the meter shows round(done / count * 100) while done <
\* count; at done = count the dialog is hidden and the value stays.
C10_MeterWhileBelow == []C10_MeterState /\ [][C10_MeterStep]_vars

\* C10 witness: three pages, all counted: the dialog is hidden and the meter
\* still shows 67.
C10_Witness ==
  /\ dom = "ok"
  /\ Len(pages) = 3
  /\ Len(cycles) = 1
  /\ Handled(1)
  /\ cycles[1].done = 3
  /\ ~meter.visible
  /\ meter.value = 67

\* The number of pieces text.split(/\s+/) gives: one more than the runs of
\* whitespace.
WordCount(text) ==
  1 + Cardinality({i \in 1..Len(text) : text[i] = " " /\ (i = 1 \/ text[i - 1] # " ")})

RECURSIVE SumOver(_, _)
SumOver(f, S) ==
  IF S = {} THEN 0
  ELSE LET x == CHOOSE y \in S : TRUE IN f[x] + SumOver(f, S \ {x})

Found(containers) == {p \in 1..Len(containers) : containers[p].found}

\* W: the words of the found containers; L: their characters less their words.
TotalWords(containers) ==
  SumOver([p \in Found(containers) |-> WordCount(containers[p].textContent)],
          Found(containers))
TotalLetters(containers) ==
  SumOver([p \in Found(containers) |->
             Len(containers[p].textContent) - WordCount(containers[p].textContent)],
          Found(containers))

\* C9: the document is eligible exactly when W > 0, L > W and
\* L < MAX_AVG_WORD_LENGTH * W, for W the words and L the letters of the
\* found containers; so L = W, L = 10 * W and W = 0 are ineligible.
C9_EligibleIffBetween ==
  probe.computed =>
    LET W == TotalWords(probe.containers)
        L == TotalLetters(probe.containers) IN
    /\ probe.wordLen = [len |-> L, words |-> W]
    /\ probe.enableHighlights <=> (W > 0 /\ L > W /\ L < 10 * W)

\* C9 witness: a document whose average is exactly 10 has been classified
\* ineligible.
C9_Witness ==
  /\ probe.computed
  /\ TotalWords(probe.containers) > 0
  /\ TotalLetters(probe.containers) = 10 * TotalWords(probe.containers)
  /\ ~probe.enableHighlights

\* C3 (as claimed): a cycle that has started dispatches documentrendered and
\* unsubscribes, when the renderer is well behaved.
C3_Terminates ==
  (Len(cycles) = 1) ~> (Len(cycles) = 1 /\ ~cycles[1].subscribed /\ cycles[1].emitted = 1)

\* The forced view is PAUSED while a handler is still subscribed.
Stalled ==
  /\ HasWatchdog
  /\ renderingView \in 1..Len(pages)
  /\ pages[renderingView].renderingState = "PAUSED"
  /\ \E c \in 1..Len(cycles) : cycles[c].subscribed

\* C11 (as claimed): while the forced view is PAUSED and the cycle is not
\* done, a tick eventually re-issues the render request, unless the view
\* leaves PAUSED or the cycle ends first.
C11_PausedIsReissued ==
  Stalled ~> (~Stalled \/ (last.op = "tick" /\ last.calls # <<>>))

\* C12 (step part, as claimed): no error escapes a handler, and a handler
\* that finds no render in flight finishes the cycle or, in the revisions
\* with the watchdog, arms the timer for the page it forces.
C12_HandlerStep ==
  (last'.op = "textlayerrendered" /\ last'.invoked # <<>>) =>
    /\ ~last'.raised
    /\ ~InFlight(pages) => (last'.signalled > 0 \/ timer' # 0 \/ ~HasWatchdog)

\* C12 (as claimed): a dialog or meter that cannot be found stops nothing of
\* the handler and raises nothing.
C12_LookupFailureSwallowed == [][C12_HandlerStep]_vars

\* renderNextPage takes the view as rendered.
HasContent(view) == view.textLayer /\ view.childNodes >= 1

\* C13 (step part, as claimed): renderingView changes only to the view a scan
\* has just requested; after a scan (the handler armed the timer and called
\* renderNextPage) it is that view or null; and a tick re-issues no request
\* for a view that has content.
C13_ForcedViewStep ==
  /\ renderingView' # renderingView =>
       /\ last'.op = "textlayerrendered"
       /\ last'.calls # <<>>
       /\ renderingView' = last'.calls[Len(last'.calls)]
  /\ (last'.op = "textlayerrendered" /\ HasWatchdog /\ timer' # 0) =>
       \/ renderingView' = 0
       \/ last'.calls # <<>> /\ renderingView' = last'.calls[Len(last'.calls)]
  /\ (last'.op = "tick" /\ last'.calls # <<>>) => ~HasContent(pages[renderingView])

\* C13 (as claimed): the forced view is written by renderNextPage only, is
\* the view just forced or null after every scan, and is never re-requested
\* by a tick once it has content.
C13_ForcedViewLifetime == [][C13_ForcedViewStep]_vars

\* C14 (step part): a textlayerrendered step requests a render only when no
\* view that is not PAUSED has a paint task and the handler's done-count is
\* below the page count; with such a render in flight the step requests
\* nothing and leaves no timer armed.
C14_ForceStep ==
  last'.op = "textlayerrendered" =>
    /\ last'.calls # <<>> =>
         /\ ~InFlight(pages)
         /\ \E c \in 1..Len(cycles') : cycles[c].subscribed /\ cycles'[c].done < Len(pages)
    /\ InFlight(pages) => (last'.calls = <<>> /\ timer' = 0 /\ liveTimers' = {})

\* C14: the handler calls renderNextPage only with no render in flight and
\* done < count; with a render in flight it forces nothing and arms no timer.
C14_ForceGate == [][C14_ForceStep]_vars

\* C14 witness: an event arrived while a render was in flight, so nothing was
\* requested and the timer that was armed is cleared.
C14_Witness ==
  /\ last.op = "textlayerrendered"
  /\ last.invoked # <<>>
  /\ InFlight(pages)
  /\ last.calls = <<>>
  /\ renderingView # 0
  /\ timer = 0

\* The highest page of a non-empty set of pages.
Highest(S) == CHOOSE p \in S : \A q \in S : q <= p

\* C15 (step part, as claimed): a textlayerrendered step that requests a
\* render requests exactly the highest view without content and records it
\* as renderingView; a scan (the handler armed the timer) requests nothing
\* exactly when every view has content.
C15_ScanStep ==
  last'.op = "textlayerrendered" =>
    /\ last'.calls # <<>> =>
         /\ Unrendered(pages') # {}
         /\ last'.calls = <<Highest(Unrendered(pages'))>>
         /\ HasWatchdog => renderingView' = Highest(Unrendered(pages'))
    /\ (HasWatchdog /\ timer' # 0) => (Unrendered(pages') = {} <=> last'.calls = <<>>)

\* C15 (as claimed): renderNextPage forces the highest page that is not
\* rendered, with one render request, and nothing when every page is.
C15_ForcesHighestUnrendered == [][C15_ScanStep]_vars

\* C16 (step part, as claimed): only a textlayerrendered step changes the
\* timer, a handled event leaves it armed exactly when the step forced a
\* page, and no step leaves it armed once every handler has unsubscribed.
C16_TimerStep ==
  /\ last'.op # "textlayerrendered" => UNCHANGED <<timer, liveTimers>>
  /\ (last'.op = "textlayerrendered" /\ last'.invoked # <<>> /\ HasWatchdog)
       => (timer' # 0 <=> last'.calls # <<>>)
  /\ (Len(cycles') >= 1 /\ \A c \in 1..Len(cycles') : ~cycles'[c].subscribed)
       => (timer' = 0 /\ liveTimers' = {})

\* C16 (as claimed): the timer is armed exactly when a page is forced and
\* cleared at every event, so it is armed only if the latest event forced a
\* page, and never once the cycle is done.
C16_ArmedIffForced == [][C16_TimerStep]_vars

\* The handlers subscribed to textlayerrendered.
Subscribed == {c \in 1..Len(cycles) : cycles[c].subscribed}

\* C20 (as claimed): at most one handler is subscribed at a time, so a
\* textlayerrendered event runs one handler and dispatches at most one
\* documentrendered.
C20_OneSubscriber ==
  /\ Cardinality(Subscribed) <= 1
  /\ last.op = "textlayerrendered" => (Len(last.invoked) <= 1 /\ last.signalled <= 1)

\* C17: at most one interval timer exists, and an interval that exists is
\* the one recorded in timer.
C17_OneTimer ==
  /\ Cardinality(liveTimers) <= 1
  /\ \A h \in liveTimers : h = timer

\* C17 witness: the timer has been armed again by the event of a second page.
C17_Witness ==
  /\ last.op = "textlayerrendered"
  /\ timer # 0
  /\ timer \in liveTimers
  /\ Len(cycles) = 1
  /\ cycles[1].done = 2

\* C19 (as claimed): a handler whose done-count has been equal to the page
\* count never takes the branch that arms the timer and forces a page.
C19_NoRenderMoreAfterFull ==
  \A c \in 1..Len(cycles) : ~cycles[c].relapsed

\* The views a visit of renderNextPage's callback requests a render for.
Requested == {p \in 1..Len(pages) : ~pages[p].textLayer \/ pages[p].childNodes < 1}

\* The view at which the scan of the probe stops: with the callback of
\* renderNextPage, the requested view that has probe.failing requested views
\* above it (their requests raised); none with the other callback.
StopsAt ==
  IF probe.cb = "render"
  THEN {p \in Requested : Cardinality({q \in Requested : q > p}) = probe.failing}
  ELSE {}

\* C18: forEachView visits the views from the last down, one after the other;
\* a visit that raises is passed over; the scan ends at the first visit that
\* returns a defined value, with that value; if there is none every view is
\* visited once and the result is undefined.
C18_ScanOrder ==
  probe.computed =>
    /\ probe.visited # <<>>
    /\ \A i \in 1..Len(probe.visited) : probe.visited[i] = Len(pages) + 1 - i
    /\ IF StopsAt # {}
       THEN /\ probe.result # Undefined
            /\ \A p \in StopsAt : probe.visited[Len(probe.visited)] = p
       ELSE /\ probe.result = Undefined
            /\ Len(probe.visited) = Len(pages)

\* C18 witness: a scan passed over a visit that raised and stopped at a lower
\* view, above the first one.
C18_Witness ==
  /\ probe.computed
  /\ probe.cb = "render"
  /\ probe.failing >= 1
  /\ probe.result # Undefined
  /\ Len(probe.calls) = probe.failing + 1
  /\ Len(probe.visited) < Len(pages)

====
